---- MODULE Spec2Model ----
(***************************************************************************)
(* A model of src/shared/ebm_native/Discretization.cpp.                    *)
(*                                                                         *)
(* Doubles are modelled by the integers they represent exactly, plus one   *)
(* value NaN; every comparison goes through FEq/FNe/FLe/FLt, which give    *)
(* the IEEE answers for NaN.  Pointers into the caller's value buffer and  *)
(* into the range table are 0-based offsets from the start of the array.   *)
(* size_t is an unsigned integer of SizeBits bits and IntEbmType a signed  *)
(* integer of the same width (the 64-bit build, scaled down).              *)
(***************************************************************************)
EXTENDS Integers, Sequences, FiniteSets, TLC

VARIABLES
    pc,       \* position inside GenerateQuantileCutPoints
    args,     \* its by-value parameters
    buf,      \* singleFeatureValues, the caller's value buffer
    bufIn,    \* the buffer as it was on entry
    cuts,     \* cutPointsLowerBoundInclusive, the caller's cut-point array
    out,      \* *countCutPoints, *isMissing, *minValue, *maxValue
    assigned, \* which of the four out parameters the call has stored to
    ret,      \* the returned status
    loc,      \* locals of GenerateQuantileCutPoints
    tbl,      \* the malloc'ed block: range records and the pointers to them
    bins,     \* a call of GetCountBinsMax
    disc,     \* a call of Discretize
    ord       \* a call of one of the two SortSplittingRanges... functions

vars == <<pc, args, buf, bufIn, cuts, out, assigned, ret, loc, tbl, bins, disc, ord>>

(***************************************************************************)
(* Bounds of the model.                                                    *)
(***************************************************************************)
SizeBits == 8     \* width of size_t and of IntEbmType
MaxLen == 4       \* longest value buffer drawn by Init
MaxVal == 4       \* non-NaN values are drawn from 1..MaxVal
MaxCutLen == 3    \* capacity of the caller's cut-point array, most cut points given to Discretize
MaxDiscLen == 2   \* most values given to one call of Discretize
MaxRanges == 3    \* most range records given to an ordering function
MaxKey == 1       \* sort keys of those records are drawn from 0..MaxKey

(***************************************************************************)
(* Program constants.                                                      *)
(***************************************************************************)
k_MiddleSplittingRange == 0
k_FirstSplittingRange == 1
k_LastSplittingRange == 2
EBM_FALSE == 0
EBM_TRUE == 1
NaN == -1

RECURSIVE Pow2(_)
Pow2(n) == IF n = 0 THEN 1 ELSE 2 * Pow2(n - 1)

SizeMax == Pow2(SizeBits) - 1          \* largest size_t
IntMax == Pow2(SizeBits - 1) - 1       \* largest IntEbmType
IntMin == 0 - Pow2(SizeBits - 1)       \* smallest IntEbmType
SizeWrap(x) == x % Pow2(SizeBits)      \* size_t arithmetic is modulo 2^SizeBits

IsNaN(v) == v = NaN
FEq(a, b) == ~IsNaN(a) /\ ~IsNaN(b) /\ a = b
FNe(a, b) == ~FEq(a, b)
FLt(a, b) == ~IsNaN(a) /\ ~IsNaN(b) /\ a < b
FLe(a, b) == ~IsNaN(a) /\ ~IsNaN(b) /\ a <= b

At(s, i) == s[i + 1]                   \* s[i] of a 0-based C array
Max(a, b) == IF a >= b THEN a ELSE b
Min(a, b) == IF a <= b THEN a ELSE b

IsNumberConvertable(x) == 0 <= x /\ x <= SizeMax

(***************************************************************************)
(* GetCountBinsMax, lines 149-176.                                         *)
(***************************************************************************)
TopBit == Pow2(SizeBits - 1)           \* ((~size_t { 0 }) >> 1) + size_t { 1 }

\* One pass through the body of the do-while: the test, the shift.
BinsLoopBody(cBits, cMaximumBins) ==
    IF cBits = cMaximumBins
    THEN [cBits |-> cBits, cMaximumBins |-> cMaximumBins - 1, brk |-> TRUE]
    ELSE [cBits |-> cBits \div 2, cMaximumBins |-> cMaximumBins, brk |-> FALSE]

\* the loop going on until cBits is 4, so that 8 is tested too
BinsLoopAgainDownTo4(b) == ~b.brk /\ b.cBits # 4

\* the break of line 167 and the condition of line 173
BinsLoopAgain(b) == ~b.brk /\ b.cBits # 8

RECURSIVE BinsLoop(_, _)
BinsLoop(cBits, cMaximumBins) ==
    LET b == BinsLoopBody(cBits, cMaximumBins)
    IN IF BinsLoopAgain(b) THEN BinsLoop(b.cBits, b.cMaximumBins) ELSE b.cMaximumBins

GetCountBinsMax(bMissing, countMaximumBins) ==
    IF bMissing THEN BinsLoop(TopBit, countMaximumBins) ELSE countMaximumBins

(***************************************************************************)
(* GetAvgLength, lines 178-197.  The quotient of two small integers is     *)
(* exact in a double, so std::ceil gives the integer ceiling and the       *)
(* representability loop of lines 188-192 runs zero times.                 *)
(***************************************************************************)
CeilDiv(a, b) == (a + b - 1) \div b

\* GetAvgLength that forgets the average and returns the minimum
GetAvgLengthMinOnly(cInstances, cMaximumBins, cMinimumInstancesPerBin) ==
    cMinimumInstancesPerBin

GetAvgLength(cInstances, cMaximumBins, cMinimumInstancesPerBin) ==
    LET avgLengthFloat == CeilDiv(cInstances, cMaximumBins)
        avgLength == avgLengthFloat
    IN IF avgLength < cMinimumInstancesPerBin THEN cMinimumInstancesPerBin ELSE avgLength

(***************************************************************************)
(* RemoveMissingValues, lines 199-222.  Returns the buffer and pCopyTo.    *)
(***************************************************************************)
RECURSIVE RemoveCopy(_, _, _, _)
\* the inner do-while, entered at skip_val
RemoveCopy(a, pCopyFrom, pCopyTo, pCopyFromEnd) ==
    LET from == pCopyFrom + 1
    IN IF from = pCopyFromEnd
       THEN [a |-> a, pCopyTo |-> pCopyTo]
       ELSE LET val == At(a, from)
            IN IF ~IsNaN(val)
               THEN RemoveCopy([a EXCEPT ![pCopyTo + 1] = val], from, pCopyTo + 1, pCopyFromEnd)
               ELSE RemoveCopy(a, from, pCopyTo, pCopyFromEnd)

RECURSIVE RemoveScan(_, _, _)
\* the outer do-while
RemoveScan(a, pCopyFrom, pValuesEnd) ==
    IF IsNaN(At(a, pCopyFrom))
    THEN RemoveCopy(a, pCopyFrom, pCopyFrom, pValuesEnd)
    ELSE IF pCopyFrom + 1 = pValuesEnd
         THEN [a |-> a, pCopyTo |-> pValuesEnd]
         ELSE RemoveScan(a, pCopyFrom + 1, pValuesEnd)

RemoveMissingValues(aValues, pValuesEnd) == RemoveScan(aValues, 0, pValuesEnd)

(***************************************************************************)
(* std::sort(singleFeatureValues, pValuesEnd), line 298: the first n       *)
(* entries put in ascending order, the rest of the buffer left alone.      *)
(***************************************************************************)
\* where std::sort puts entry j of the first n: after the entries that compare less
\* and after the equal entries before it
SortedPlace(a, n, j) ==
    Cardinality({k \in 1..n : FLt(a[k], a[j])})
    + Cardinality({k \in 1..j : ~FLt(a[k], a[j]) /\ ~FLt(a[j], a[k])})

SortPrefix(a, n) == [i \in 1..n |-> a[CHOOSE j \in 1..n : SortedPlace(a, n, j) = i]]

\* std::sort given pValuesEnd - 1 as the end of the range
StdSortOneShort(a, n) == SortPrefix(a, n - 1) \o SubSeq(a, n, Len(a))

StdSort(a, n) == SortPrefix(a, n) \o SubSeq(a, n + 1, Len(a))

(***************************************************************************)
(* GenerateQuantileCutPoints, lines 224-586.                               *)
(***************************************************************************)
PreCall == IntMin   \* what the caller's out parameters and cut array hold before the call

OutNames == {"countCutPoints", "isMissing", "minValue", "maxValue"}

LocInit ==
    [cInstancesIncludingMissingValues |-> 0, bMissing |-> FALSE, cInstances |-> 0,
     cMinimumInstancesPerBin |-> 0, cMaximumBins |-> 0, avgLength |-> 0,
     rangeValue |-> 0, pSplittableValuesStart |-> 0, pStartEqualRange |-> 0, pScan |-> 0,
     cSplittingRanges |-> 0, cRemainingSplittingRanges |-> 0, cTotalSplittable |-> 0,
     cEqualRangeItemsPrior |-> 0,
     assertFailed |-> FALSE,      \* an EBM_ASSERT on a position was false (debug builds stop there)
     budgetFailed |-> FALSE]      \* EBM_ASSERT(1 <= cRemainingSplittingRanges) was false

\* A SplittingRange, lines 24-40; written is FALSE while the malloc'ed bytes are indeterminate.
RawRange ==
    [m_pSplittableValuesStart |-> 0, m_cSplittableItems |-> 0,
     m_cUnsplittablePriorItems |-> 0, m_cUnsplittableSubsequentItems |-> 0,
     m_cUnsplittableEitherSideMax |-> 0, m_cUnsplittableEitherSideMin |-> 0,
     m_cSplitsAssigned |-> 0, m_flags |-> 0, written |-> FALSE]

TblInit ==
    [state |-> "none",            \* "none", "allocated" or "freed"
     aSplittingRange |-> <<>>,    \* the records
     apSplittingRange |-> <<>>,   \* the pointers to them: record indices, -1 while indeterminate
     pSplittingRange |-> 0, ppSplittingRange |-> 0,
     mallocs |-> 0, frees |-> 0,  \* successful malloc calls, free calls
     badAccess |-> FALSE]         \* a record or pointer slot was touched outside a live block

\* *countCutPoints = 0 and the fall through to the return of line 580, or goto done
ReportNoCuts ==
    /\ out' = [out EXCEPT !.countCutPoints = 0]
    /\ assigned' = assigned \cup {"countCutPoints"}
    /\ ret' = 0
    /\ pc' = "returned"

\* CheckSizes without the test of countMinimumInstancesPerBin
CheckSizesTwoOnly ==
    /\ pc = "entry"
    /\ IF \/ ~IsNumberConvertable(args.countInstances)
          \/ ~IsNumberConvertable(args.countMaximumBins)
       THEN /\ ret' = 1
            /\ pc' = "returned"
            /\ loc' = loc
       ELSE /\ loc' = [loc EXCEPT !.cInstancesIncludingMissingValues = args.countInstances]
            /\ pc' = "begin"
            /\ ret' = 0
    /\ UNCHANGED <<args, buf, bufIn, cuts, out, assigned, tbl, bins, disc, ord>>

\* lines 262-277
CheckSizes ==
    /\ pc = "entry"
    /\ IF \/ ~IsNumberConvertable(args.countInstances)
          \/ ~IsNumberConvertable(args.countMaximumBins)
          \/ ~IsNumberConvertable(args.countMinimumInstancesPerBin)
       THEN /\ ret' = 1
            /\ pc' = "returned"
            /\ loc' = loc
       ELSE /\ loc' = [loc EXCEPT !.cInstancesIncludingMissingValues = args.countInstances]
            /\ pc' = "begin"
            /\ ret' = 0
    /\ UNCHANGED <<args, buf, bufIn, cuts, out, assigned, tbl, bins, disc, ord>>

\* lines 280-284
NoInstances ==
    /\ pc = "begin"
    /\ loc.cInstancesIncludingMissingValues = 0
    /\ out' = [out EXCEPT !.countCutPoints = 0, !.isMissing = EBM_FALSE,
                          !.minValue = 0, !.maxValue = 0]
    /\ assigned' = assigned \cup OutNames
    /\ pc' = "returned"
    /\ UNCHANGED <<args, buf, bufIn, cuts, ret, loc, tbl, bins, disc, ord>>

\* FilterMissing that stores the missing flag only on the path that goes on to sort
FilterMissingLateFlag ==
    /\ pc = "begin"
    /\ loc.cInstancesIncludingMissingValues # 0
    /\ LET pValuesOriginalEnd == loc.cInstancesIncludingMissingValues
           r == RemoveMissingValues(buf, pValuesOriginalEnd)
           pValuesEnd == r.pCopyTo
           bMissing == pValuesOriginalEnd # pValuesEnd
           cInstances == pValuesEnd
       IN /\ buf' = r.a
          /\ loc' = [loc EXCEPT !.bMissing = bMissing, !.cInstances = cInstances]
          /\ IF cInstances = 0
             THEN /\ out' = [out EXCEPT !.isMissing = EBM_FALSE,
                                        !.countCutPoints = 0, !.minValue = 0, !.maxValue = 0]
                  /\ assigned' = assigned \cup OutNames
                  /\ pc' = "returned"
             ELSE /\ out' = [out EXCEPT !.isMissing = IF bMissing THEN EBM_TRUE ELSE EBM_FALSE]
                  /\ assigned' = assigned \cup {"isMissing"}
                  /\ pc' = "sort"
    /\ UNCHANGED <<args, bufIn, cuts, ret, tbl, bins, disc, ord>>

\* lines 286-297
FilterMissing ==
    /\ pc = "begin"
    /\ loc.cInstancesIncludingMissingValues # 0
    /\ LET pValuesOriginalEnd == loc.cInstancesIncludingMissingValues
           r == RemoveMissingValues(buf, pValuesOriginalEnd)
           pValuesEnd == r.pCopyTo
           bMissing == pValuesOriginalEnd # pValuesEnd
           cInstances == pValuesEnd
       IN /\ buf' = r.a
          /\ loc' = [loc EXCEPT !.bMissing = bMissing, !.cInstances = cInstances]
          /\ IF cInstances = 0
             THEN /\ out' = [out EXCEPT !.isMissing = IF bMissing THEN EBM_TRUE ELSE EBM_FALSE,
                                        !.countCutPoints = 0, !.minValue = 0, !.maxValue = 0]
                  /\ assigned' = assigned \cup OutNames
                  /\ pc' = "returned"
             ELSE /\ out' = [out EXCEPT !.isMissing = IF bMissing THEN EBM_TRUE ELSE EBM_FALSE]
                  /\ assigned' = assigned \cup {"isMissing"}
                  /\ pc' = "sort"
    /\ UNCHANGED <<args, bufIn, cuts, ret, tbl, bins, disc, ord>>

\* lines 298-319
SortValues ==
    /\ pc = "sort"
    /\ LET sorted == StdSort(buf, loc.cInstances)
           cMinimumInstancesPerBin ==
               IF args.countMinimumInstancesPerBin <= 0 THEN 1
               ELSE args.countMinimumInstancesPerBin
           cMaximumBins == GetCountBinsMax(loc.bMissing, args.countMaximumBins)
       IN /\ buf' = sorted
          /\ IF args.countMaximumBins <= 1
             THEN /\ out' = [out EXCEPT !.minValue = At(sorted, 0),
                                        !.maxValue = At(sorted, loc.cInstances - 1),
                                        !.countCutPoints = 0]
                  /\ assigned' = assigned \cup {"minValue", "maxValue", "countCutPoints"}
                  /\ pc' = "returned"
                  /\ loc' = loc
             ELSE IF loc.cInstances < SizeWrap(cMinimumInstancesPerBin * 2)
             THEN /\ out' = [out EXCEPT !.minValue = At(sorted, 0),
                                        !.maxValue = At(sorted, loc.cInstances - 1),
                                        !.countCutPoints = 0]
                  /\ assigned' = assigned \cup {"minValue", "maxValue", "countCutPoints"}
                  /\ pc' = "returned"
                  /\ loc' = [loc EXCEPT !.cMinimumInstancesPerBin = cMinimumInstancesPerBin]
             ELSE /\ out' = [out EXCEPT !.minValue = At(sorted, 0),
                                        !.maxValue = At(sorted, loc.cInstances - 1)]
                  /\ assigned' = assigned \cup {"minValue", "maxValue"}
                  /\ pc' = "count"
                  /\ loc' = [loc EXCEPT
                        !.cMinimumInstancesPerBin = cMinimumInstancesPerBin,
                        !.cMaximumBins = cMaximumBins,
                        !.avgLength = GetAvgLength(loc.cInstances, cMaximumBins,
                                                   cMinimumInstancesPerBin),
                        !.rangeValue = At(sorted, 0),
                        !.pSplittableValuesStart = 0,
                        !.pStartEqualRange = 0,
                        !.pScan = 1,
                        !.cSplittingRanges = 0]
    /\ UNCHANGED <<args, bufIn, cuts, ret, tbl, bins, disc, ord>>

\* the condition with < in place of <=
StartsRangeStrict(l) ==
    \/ 0 # l.pSplittableValuesStart
    \/ l.cMinimumInstancesPerBin < l.pStartEqualRange - l.pSplittableValuesStart

\* the condition of lines 326, 400 and 435
StartsRange(l) ==
    \/ 0 # l.pSplittableValuesStart
    \/ l.cMinimumInstancesPerBin <= l.pStartEqualRange - l.pSplittableValuesStart

\* the counting loop counting a range at every long run, the one that opens the data too
CountScanEveryRun ==
    /\ pc = "count"
    /\ loc.pScan # loc.cInstances
    /\ LET val == At(buf, loc.pScan)
           cEqualRangeItems == loc.pScan - loc.pStartEqualRange
           long == loc.avgLength <= cEqualRangeItems
       IN loc' = IF FNe(val, loc.rangeValue)
                 THEN [loc EXCEPT
                         !.cSplittingRanges = IF long THEN SizeWrap(@ + 1) ELSE @,
                         !.pSplittableValuesStart = IF long THEN loc.pScan ELSE @,
                         !.rangeValue = val,
                         !.pStartEqualRange = loc.pScan,
                         !.pScan = @ + 1]
                 ELSE [loc EXCEPT !.pScan = @ + 1]
    /\ UNCHANGED <<pc, args, buf, bufIn, cuts, out, assigned, ret, tbl, bins, disc, ord>>

\* one iteration of the counting loop, lines 321-335
CountScan ==
    /\ pc = "count"
    /\ loc.pScan # loc.cInstances
    /\ LET val == At(buf, loc.pScan)
           cEqualRangeItems == loc.pScan - loc.pStartEqualRange
           long == loc.avgLength <= cEqualRangeItems
       IN loc' = IF FNe(val, loc.rangeValue)
                 THEN [loc EXCEPT
                         !.cSplittingRanges =
                             IF long /\ StartsRange(loc) THEN SizeWrap(@ + 1) ELSE @,
                         !.pSplittableValuesStart = IF long THEN loc.pScan ELSE @,
                         !.rangeValue = val,
                         !.pStartEqualRange = loc.pScan,
                         !.pScan = @ + 1]
                 ELSE [loc EXCEPT !.pScan = @ + 1]
    /\ UNCHANGED <<pc, args, buf, bufIn, cuts, out, assigned, ret, tbl, bins, disc, ord>>

RECURSIVE CheckForSplitPointShort(_, _, _, _)
\* the loop stopping one position before pCheckForSplitPointLast
CheckForSplitPointShort(a, pCheckForSplitPoint, pCheckForSplitPointLast, checkValue) ==
    IF pCheckForSplitPoint < pCheckForSplitPointLast
    THEN IF FNe(checkValue, At(a, pCheckForSplitPoint))
         THEN TRUE
         ELSE CheckForSplitPointShort(a, pCheckForSplitPoint + 1, pCheckForSplitPointLast,
                                      checkValue)
    ELSE FALSE

RECURSIVE CheckForSplitPoint(_, _, _, _)
\* the loop of lines 348-353: TRUE when it leaves by goto continue_working
CheckForSplitPoint(a, pCheckForSplitPoint, pCheckForSplitPointLast, checkValue) ==
    IF pCheckForSplitPoint <= pCheckForSplitPointLast
    THEN IF FNe(checkValue, At(a, pCheckForSplitPoint))
         THEN TRUE
         ELSE CheckForSplitPoint(a, pCheckForSplitPoint + 1, pCheckForSplitPointLast, checkValue)
    ELSE FALSE

\* after the counting loop, lines 336-367
CountTail ==
    /\ pc = "count"
    /\ loc.pScan = loc.cInstances
    /\ IF 0 = loc.pSplittableValuesStart
       THEN LET pCheckForSplitPoint == loc.cMinimumInstancesPerBin
                pCheckForSplitPointLast == loc.cInstances - loc.cMinimumInstancesPerBin
                failed == \/ 0 # loc.cSplittingRanges
                          \/ ~(pCheckForSplitPoint <= loc.cInstances)
                          \/ ~(0 <= pCheckForSplitPointLast)
                          \/ ~(0 < pCheckForSplitPoint)
            IN /\ loc' = [loc EXCEPT !.cSplittingRanges = 1,
                                     !.assertFailed = @ \/ failed]
               /\ IF CheckForSplitPoint(buf, pCheckForSplitPoint, pCheckForSplitPointLast,
                                        At(buf, pCheckForSplitPoint - 1))
                  THEN /\ pc' = "random"
                       /\ UNCHANGED <<out, assigned, ret>>
                  ELSE ReportNoCuts
       ELSE LET cItemsLast == loc.cInstances - loc.pSplittableValuesStart
            IN IF loc.cMinimumInstancesPerBin <= cItemsLast
               THEN /\ loc' = [loc EXCEPT !.cSplittingRanges = SizeWrap(@ + 1)]
                    /\ pc' = "random"
                    /\ UNCHANGED <<out, assigned, ret>>
               ELSE IF 0 = loc.cSplittingRanges
               THEN /\ loc' = loc
                    /\ ReportNoCuts
               ELSE /\ loc' = loc
                    /\ pc' = "random"
                    /\ UNCHANGED <<out, assigned, ret>>
    /\ UNCHANGED <<args, buf, bufIn, cuts, tbl, bins, disc, ord>>

cBytesCombined == 9   \* sizeof(SplittingRange) + sizeof(SplittingRange *), in machine words

IsMultiplyError(a, b) == a * b > SizeMax

\* goto exit_error, lines 582-585
ExitError ==
    /\ ret' = 1
    /\ pc' = "returned"

\* lines 369-373: the constructor of RandomStream returns with success, returns
\* with failure, or throws into the catch of lines 564-566
CreateRandomStream ==
    /\ pc = "random"
    /\ \/ /\ pc' = "alloc"
          /\ ret' = ret
       \/ ExitError
       \/ /\ ret' = 1
          /\ pc' = "returned"
    /\ UNCHANGED <<args, buf, bufIn, cuts, out, assigned, loc, tbl, bins, disc, ord>>

\* lines 375-394: malloc returns a block of indeterminate bytes, or nullptr
Allocate ==
    /\ pc = "alloc"
    /\ IF IsMultiplyError(loc.cSplittingRanges, cBytesCombined)
       THEN /\ ExitError
            /\ UNCHANGED <<loc, tbl>>
       ELSE \/ /\ ExitError
               /\ UNCHANGED <<loc, tbl>>
            \/ /\ tbl' = [tbl EXCEPT
                     !.state = "allocated",
                     !.mallocs = @ + 1,
                     !.aSplittingRange = [i \in 1..loc.cSplittingRanges |-> RawRange],
                     !.apSplittingRange = [i \in 1..loc.cSplittingRanges |-> -1],
                     !.pSplittingRange = 0,
                     !.ppSplittingRange = 0]
               /\ loc' = [loc EXCEPT
                     !.rangeValue = At(buf, 0),
                     !.pSplittableValuesStart = 0,
                     !.pStartEqualRange = 0,
                     !.pScan = 1,
                     !.cRemainingSplittingRanges = SizeWrap(loc.cMaximumBins - 1),
                     !.cTotalSplittable = 0,
                     !.cEqualRangeItemsPrior = 0]
               /\ pc' = "fill"
               /\ ret' = ret
    /\ UNCHANGED <<args, buf, bufIn, cuts, out, assigned, bins, disc, ord>>

\* The stores of lines 402-424 (and of 437-457, 466-486): record *pSplittingRange and
\* slot *ppSplittingRange are written and the budget is decremented.  advance is TRUE
\* inside the loop, where both pointers are then incremented.  A store past the end
\* of the block, or into a block that is not live, is recorded and dropped.
EmitRange(l, t, cSplittable, cEqualRangeItems, advance) ==
    LET inside == /\ t.state = "allocated"
                  /\ t.pSplittingRange < Len(t.aSplittingRange)
                  /\ t.ppSplittingRange < Len(t.apSplittingRange)
        rec == [m_pSplittableValuesStart |-> l.pSplittableValuesStart,
                m_cSplittableItems |-> cSplittable,
                m_cUnsplittablePriorItems |-> l.cEqualRangeItemsPrior,
                m_cUnsplittableSubsequentItems |-> cEqualRangeItems,
                m_cUnsplittableEitherSideMax |-> Max(l.cEqualRangeItemsPrior, cEqualRangeItems),
                m_cUnsplittableEitherSideMin |-> Min(l.cEqualRangeItemsPrior, cEqualRangeItems),
                m_cSplitsAssigned |-> 1,
                m_flags |-> IF 0 = l.pSplittableValuesStart THEN k_FirstSplittingRange
                            ELSE k_MiddleSplittingRange,
                written |-> TRUE]
        failed == \/ IF advance THEN ~(t.pSplittingRange < l.cSplittingRanges)
                     ELSE t.pSplittingRange # l.cSplittingRanges - 1
                  \/ IF advance THEN ~(t.ppSplittingRange < l.cSplittingRanges)
                     ELSE t.ppSplittingRange # l.cSplittingRanges - 1
    IN [loc |-> [l EXCEPT !.cTotalSplittable = SizeWrap(@ + cSplittable),
                          !.cEqualRangeItemsPrior = cEqualRangeItems,
                          !.cRemainingSplittingRanges = SizeWrap(@ - 1),
                          !.assertFailed = @ \/ failed,
                          !.budgetFailed = @ \/ ~(1 <= l.cRemainingSplittingRanges)],
        tbl |-> [t EXCEPT
                   !.aSplittingRange =
                       IF inside THEN [@ EXCEPT ![t.pSplittingRange + 1] = rec] ELSE @,
                   !.apSplittingRange =
                       IF inside THEN [@ EXCEPT ![t.ppSplittingRange + 1] = t.pSplittingRange]
                       ELSE @,
                   !.badAccess = @ \/ ~inside,
                   !.pSplittingRange = IF advance THEN @ + 1 ELSE @,
                   !.ppSplittingRange = IF advance THEN @ + 1 ELSE @]]

\* one iteration of the filling loop, lines 395-432
FillScan ==
    /\ pc = "fill"
    /\ loc.pScan # loc.cInstances
    /\ LET val == At(buf, loc.pScan)
           cEqualRangeItems == loc.pScan - loc.pStartEqualRange
           long == loc.avgLength <= cEqualRangeItems
           e == IF FNe(val, loc.rangeValue) /\ long /\ StartsRange(loc)
                THEN EmitRange(loc, tbl, loc.pStartEqualRange - loc.pSplittableValuesStart,
                               cEqualRangeItems, TRUE)
                ELSE [loc |-> loc, tbl |-> tbl]
       IN /\ tbl' = e.tbl
          /\ loc' = IF FNe(val, loc.rangeValue)
                    THEN [e.loc EXCEPT
                            !.pSplittableValuesStart = IF long THEN loc.pScan ELSE @,
                            !.rangeValue = val,
                            !.pStartEqualRange = loc.pScan,
                            !.pScan = @ + 1]
                    ELSE [loc EXCEPT !.pScan = @ + 1]
    /\ UNCHANGED <<pc, args, buf, bufIn, cuts, out, assigned, ret, bins, disc, ord>>

BitOr(flags, bit) == IF (flags \div bit) % 2 = 1 THEN flags ELSE flags + bit

\* after the filling loop, lines 433-489
FillTail ==
    /\ pc = "fill"
    /\ loc.pScan = loc.cInstances
    /\ LET cEqualRangeItems == loc.cInstances - loc.pStartEqualRange
           same == [loc |-> loc, tbl |-> tbl]
           e == IF loc.avgLength <= cEqualRangeItems
                THEN IF StartsRange(loc)
                     THEN EmitRange(loc, tbl, loc.pStartEqualRange - loc.pSplittableValuesStart,
                                    cEqualRangeItems, FALSE)
                     ELSE [same EXCEPT !.loc.assertFailed =
                               \/ @
                               \/ tbl.pSplittingRange # loc.cSplittingRanges
                               \/ tbl.ppSplittingRange # loc.cSplittingRanges]
                ELSE IF tbl.pSplittingRange # loc.cSplittingRanges
                     THEN EmitRange(loc, tbl, loc.cInstances - loc.pSplittableValuesStart,
                                    cEqualRangeItems, FALSE)
                     ELSE same
           iLast == loc.cSplittingRanges   \* aSplittingRange + cSplittingRanges - 1
           live == e.tbl.state = "allocated" /\ iLast \in 1..Len(e.tbl.aSplittingRange)
       IN /\ loc' = e.loc
          /\ IF live
             THEN \E old \in IF e.tbl.aSplittingRange[iLast].written
                             THEN {e.tbl.aSplittingRange[iLast].m_flags}
                             ELSE 0..3 :   \* an indeterminate m_flags is read
                     tbl' = [e.tbl EXCEPT !.aSplittingRange[iLast].m_flags =
                                              BitOr(old, k_LastSplittingRange)]
             ELSE tbl' = [e.tbl EXCEPT !.badAccess = TRUE]
    /\ pc' = "free"
    /\ UNCHANGED <<args, buf, bufIn, cuts, out, assigned, ret, bins, disc, ord>>

\* FreeAndReport that hands out the cuts assigned to the ranges, one per range
FreeAndReportAssigned ==
    /\ pc = "free"
    /\ tbl' = [tbl EXCEPT !.state = "freed", !.frees = @ + 1]
    /\ out' = [out EXCEPT !.countCutPoints = loc.cSplittingRanges]
    /\ assigned' = assigned \cup {"countCutPoints"}
    /\ cuts' = [i \in DOMAIN cuts |->
                  IF i <= loc.cSplittingRanges
                  THEN At(buf, tbl.aSplittingRange[i].m_pSplittableValuesStart)
                  ELSE cuts[i]]
    /\ ret' = 0
    /\ pc' = "returned"
    /\ UNCHANGED <<args, buf, bufIn, loc, bins, disc, ord>>

\* FreeAndReport that returns without the free of line 557
FreeAndReportLeak ==
    /\ pc = "free"
    /\ tbl' = tbl
    /\ ReportNoCuts
    /\ UNCHANGED <<args, buf, bufIn, cuts, loc, bins, disc, ord>>

\* lines 557-563 and the return of line 580
FreeAndReport ==
    /\ pc = "free"
    /\ tbl' = [tbl EXCEPT !.state = "freed", !.frees = @ + 1]
    /\ ReportNoCuts
    /\ UNCHANGED <<args, buf, bufIn, cuts, loc, bins, disc, ord>>

(***************************************************************************)
(* The calls of GenerateQuantileCutPoints that are checked.                *)
(***************************************************************************)
Values == {NaN} \cup (1..MaxVal)

ValueSeqs == UNION {[1..n -> Values] : n \in 0..MaxLen}

\* countMaximumBins and countMinimumInstancesPerBin; the negative ones do not
\* convert to size_t
BinChoices == {-1, 0, 1, 2, 3, 16}
MinChoices == {-1, 0, 1, 2}

\* the values 1, 2, ..., 100 with maxBins = 4 and minInstancesPerBin = 1
Quartiles == [i \in 1..100 |-> i]

BinsIdle == [pc |-> "idle"]
DiscIdle == [pc |-> "idle"]
OrdIdle == [pc |-> "idle"]

Init ==
    /\ pc = "entry"
    /\ \/ /\ buf \in ValueSeqs
          /\ \E n \in {Len(buf), -1}, b \in BinChoices, m \in MinChoices :
                 args = [countInstances |-> n, countMaximumBins |-> b,
                         countMinimumInstancesPerBin |-> m]
       \/ /\ buf = Quartiles
          /\ args = [countInstances |-> 100, countMaximumBins |-> 4,
                     countMinimumInstancesPerBin |-> 1]
    /\ bufIn = buf
    /\ cuts = [i \in 1..MaxCutLen |-> PreCall]
    /\ out = [n \in OutNames |-> PreCall]
    /\ assigned = {}
    /\ ret = 0
    /\ loc = LocInit
    /\ tbl = TblInit
    /\ bins = BinsIdle
    /\ disc = DiscIdle
    /\ ord = OrdIdle

Next ==
    \/ CheckSizes
    \/ NoInstances
    \/ FilterMissing
    \/ SortValues
    \/ CountScan
    \/ CountTail
    \/ CreateRandomStream
    \/ Allocate
    \/ FillScan
    \/ FillTail
    \/ FreeAndReport

Spec == Init /\ [][Next]_vars

(***************************************************************************)
(* Properties of GenerateQuantileCutPoints.                                *)
(***************************************************************************)
\* the preconditions asserted at lines 236-240
Precondition ==
    /\ 0 <= args.countInstances
    /\ 0 <= args.countMaximumBins
    /\ (0 = args.countInstances \/ 0 < args.countMaximumBins)
    /\ 0 <= args.countMinimumInstancesPerBin

SizesConvert ==
    /\ IsNumberConvertable(args.countInstances)
    /\ IsNumberConvertable(args.countMaximumBins)
    /\ IsNumberConvertable(args.countMinimumInstancesPerBin)

CutsUntouched == cuts = [i \in 1..MaxCutLen |-> PreCall]

IsQuartilesCall ==
    /\ bufIn = Quartiles
    /\ args = [countInstances |-> 100, countMaximumBins |-> 4,
               countMinimumInstancesPerBin |-> 1]

\* the caller's values that are not NaN, in their order on entry
NonMissingIn == SelectSeq(SubSeq(bufIn, 1, args.countInstances), LAMBDA v : ~IsNaN(v))

Occurrences(s, v) == Cardinality({i \in DOMAIN s : s[i] = v})

SameMultiset(s, t) ==
    /\ Len(s) = Len(t)
    /\ \A i \in DOMAIN s : Occurrences(s, s[i]) = Occurrences(t, s[i])

Ascending(s) == \A i \in 1..(Len(s) - 1) : s[i] <= s[i + 1]

StrictlyAscending(s) == \A i \in 1..(Len(s) - 1) : s[i] < s[i + 1]

\* C1: for the values 1..100 with maxBins = 4 and minInstancesPerBin = 1, a call whose
\* random stream and allocation succeed returns status 0 and reports exactly 3 cut
\* points, written to the cut-point array in strictly increasing order.
C1_QuartilesThreeCuts ==
    (pc = "returned" /\ IsQuartilesCall /\ tbl.mallocs = 1)
    => /\ ret = 0
       /\ out.countCutPoints = 3
       /\ StrictlyAscending(SubSeq(cuts, 1, 3))
       /\ \A i \in 1..3 : cuts[i] # PreCall

\* C2: whenever the call returns status 0 the reported cut count is 0, and no element
\* of the caller's cut-point array is written in any state of any call.
C2_AlwaysZeroCuts ==
    /\ CutsUntouched
    /\ (pc = "returned" /\ ret = 0)
       => ("countCutPoints" \in assigned /\ out.countCutPoints = 0)

\* a call that built a table of two or more ranges, each with a cut assigned, has returned 0
C2_Witness ==
    /\ pc = "returned"
    /\ ret = 0
    /\ tbl.state = "freed"
    /\ Len(tbl.aSplittingRange) >= 2
    /\ \A i \in DOMAIN tbl.aSplittingRange : tbl.aSplittingRange[i].m_cSplitsAssigned = 1

\* C4: on every return with a nonzero status of a call that meets the asserted
\* preconditions, each of the four out parameters has been stored to by the call.
C4_OutputsAssignedOnFailure ==
    (pc = "returned" /\ ret # 0 /\ Precondition) => assigned = OutNames

\* C5: when one of the three counts does not convert to size_t the call returns a
\* nonzero status and has done no work: the value buffer, the cut-point array, the four
\* out parameters, the locals and the range table are as they were on entry.
C5_SizeFailureDoesNothing ==
    (pc = "returned" /\ ~SizesConvert)
    => /\ ret # 0
       /\ buf = bufIn
       /\ CutsUntouched
       /\ out = [n \in OutNames |-> PreCall]
       /\ assigned = {}
       /\ loc = LocInit
       /\ tbl = TblInit

\* a call with values to compact and sort was refused for its countMinimumInstancesPerBin
C5_Witness ==
    /\ pc = "returned"
    /\ ret = 1
    /\ args.countMinimumInstancesPerBin < 0
    /\ args.countInstances >= 3
    /\ args.countMaximumBins >= 2
    /\ bufIn = <<3, NaN, 1>>

\* C6: in every state the range table has been freed at most as often as it was
\* allocated and is touched only while it is live; at the return it is not allocated
\* and every allocation has had exactly one free.
C6_TableReleased ==
    /\ tbl.frees <= tbl.mallocs
    /\ tbl.mallocs <= 1
    /\ ~tbl.badAccess
    /\ (tbl.state = "allocated") <=> (tbl.mallocs = tbl.frees + 1)
    /\ pc = "returned" => (tbl.state # "allocated" /\ tbl.mallocs = tbl.frees)

\* a call has returned after allocating, filling and freeing its table
C6_Witness ==
    /\ pc = "returned"
    /\ tbl.mallocs = 1
    /\ tbl.frees = 1
    /\ \A i \in DOMAIN tbl.aSplittingRange : tbl.aSplittingRange[i].written

\* C7: a call that meets the asserted preconditions and whose input holds no
\* non-missing value returns status 0 with 0 cuts and min = max = 0; the missing flag
\* is false when n = 0 and true when n >= 1 (every value NaN).
C7_NoValues ==
    (pc = "returned" /\ Precondition /\ NonMissingIn = <<>>)
    => /\ ret = 0
       /\ assigned = OutNames
       /\ out.countCutPoints = 0
       /\ out.minValue = 0
       /\ out.maxValue = 0
       /\ out.isMissing = IF args.countInstances = 0 THEN EBM_FALSE ELSE EBM_TRUE

\* a call on two or more values, all of them NaN, has returned
C7_Witness ==
    /\ pc = "returned"
    /\ Precondition
    /\ args.countInstances >= 2
    /\ NonMissingIn = <<>>
    /\ out.isMissing = EBM_TRUE

\* C8: for n >= 1 and counts that convert, RemoveMissingValues leaves the non-NaN values
\* at the front in their original order, and at the return the first n' entries of the
\* buffer are the non-NaN input values (same multiset) in ascending order, the missing
\* flag is true iff n' < n, and for n' >= 1 min and max are the first and n'-th entry.
C8_CompactedAndSorted ==
    LET n == args.countInstances
        k == Len(NonMissingIn)
        front == SubSeq(buf, 1, k)
    IN (SizesConvert /\ n >= 1)
       => /\ pc = "sort" => (front = NonMissingIn /\ loc.cInstances = k)
          /\ pc = "returned"
             => /\ Len(buf) = n
                /\ SameMultiset(front, NonMissingIn)
                /\ Ascending(front)
                /\ \A i \in 1..k : ~IsNaN(front[i])
                /\ out.isMissing = (IF k < n THEN EBM_TRUE ELSE EBM_FALSE)
                /\ k >= 1 => (out.minValue = buf[1] /\ out.maxValue = buf[k])

\* a call on values out of order with a NaN among them has returned
C8_Witness ==
    /\ pc = "returned"
    /\ bufIn = <<3, NaN, 1, 2>>
    /\ SubSeq(buf, 1, 3) = <<1, 2, 3>>
    /\ out.isMissing = EBM_TRUE

\* the call of the claims about the range table: counts that meet the asserted
\* preconditions, maxBins >= 2, minInstancesPerBin >= 1, and values that arrive
\* sorted with no NaN among them
SegmenterCall ==
    /\ Precondition
    /\ args.countInstances = Len(bufIn)
    /\ args.countMaximumBins >= 2
    /\ args.countMinimumInstancesPerBin >= 1
    /\ \A i \in DOMAIN bufIn : ~IsNaN(bufIn[i])
    /\ Ascending(bufIn)

\* the records of the table that have been populated
Emitted == {i \in DOMAIN tbl.aSplittingRange : tbl.aSplittingRange[i].written}

\* C11: while the table is built the budget of effectiveMaxBins - 1 cuts never runs
\* out: the remaining-budget counter is >= 1 each time a range is emitted, so at most
\* effectiveMaxBins - 1 ranges are emitted, for every sorted input, maxBins >= 2 and
\* minInstancesPerBin >= 1.
C11_BudgetNeverRunsOut ==
    (SegmenterCall /\ tbl.mallocs = 1)
    => /\ ~loc.budgetFailed
       /\ Cardinality(Emitted) <= loc.cMaximumBins - 1

\* the range table of a call of the claims' kind has been built
TableBuilt == SegmenterCall /\ tbl.mallocs = 1 /\ pc \in {"free", "returned"}

\* C12: once the table is built, the ranges in start order (the order of the records)
\* tile the n' sorted values: the first has start - priorUnsplittableCount = 0, each
\* next one starts at the previous start + splittableCount + subsequentUnsplittableCount,
\* and the last has start + splittableCount + subsequentUnsplittableCount = n'.
C12_RangesTile ==
    TableBuilt
    => LET r == tbl.aSplittingRange
           m == Len(r)
           reach(i) == r[i].m_pSplittableValuesStart + r[i].m_cSplittableItems
                       + r[i].m_cUnsplittableSubsequentItems
       IN /\ m >= 1
          /\ r[1].m_pSplittableValuesStart - r[1].m_cUnsplittablePriorItems = 0
          /\ \A i \in 1..(m - 1) : r[i + 1].m_pSplittableValuesStart = reach(i)
          /\ reach(m) = loc.cInstances

\* the length of the run of equal values that ends just before offset p of the sorted
\* values, and of the one that begins at offset q; 0 where there is no value, or
\* where the run is shorter than avgLength and so is not a separator
RunBefore(p) ==
    LET len == Cardinality({k \in 1..p : \A j \in k..p : buf[j] = buf[p]})
    IN IF p = 0 \/ len < loc.avgLength THEN 0 ELSE len

RunAfter(q) ==
    LET n == loc.cInstances
        len == Cardinality({k \in (q + 1)..n : \A j \in (q + 1)..k : buf[j] = buf[q + 1]})
    IN IF q >= n \/ len < loc.avgLength THEN 0 ELSE len

\* C13: in every emitted range priorUnsplittableCount is the length of the unsplittable
\* run that ends just before the range and subsequentUnsplittableCount the length of
\* the one that begins just after its splittable items: 0 for a range that starts at
\* position 0, and 0 for a range whose splittable items reach the end of the data.
C13_BoundingRuns ==
    TableBuilt
    => \A i \in Emitted :
          LET r == tbl.aSplittingRange[i]
              start == r.m_pSplittableValuesStart
              end == start + r.m_cSplittableItems
          IN /\ r.m_cUnsplittablePriorItems = RunBefore(start)
             /\ r.m_cUnsplittableSubsequentItems = RunAfter(end)
             /\ start = 0 => r.m_cUnsplittablePriorItems = 0
             /\ end = loc.cInstances => r.m_cUnsplittableSubsequentItems = 0

\* cMinimumInstancesPerBin as line 305 derives it from the argument
EffectiveMin ==
    IF args.countMinimumInstancesPerBin <= 0 THEN 1 ELSE args.countMinimumInstancesPerBin

\* a cut position exists in the sorted values: at least EffectiveMin values on either
\* side of it and different values next to it
Viable ==
    \E p \in EffectiveMin..(loc.cInstances - EffectiveMin) : At(buf, p - 1) # At(buf, p)

\* C14: for maxBins >= 2 the call goes on to build the range table, with at least one
\* range, if and only if a viable cut position exists in the sorted values; when none
\* exists it returns status 0 with zero cuts and never allocates the table.
C14_TableIffViableCut ==
    (Precondition /\ args.countMaximumBins >= 2)
    => /\ pc \in {"random", "alloc", "fill", "free"}
          => (Viable /\ loc.cSplittingRanges >= 1)
       /\ tbl.mallocs = 1 => (Viable /\ Len(tbl.aSplittingRange) >= 1)
       /\ (tbl.mallocs = 1 /\ pc \in {"free", "returned"}) => Emitted # {}
       /\ (pc = "returned" /\ ~Viable)
          => /\ ret = 0
             /\ "countCutPoints" \in assigned
             /\ out.countCutPoints = 0
             /\ tbl.mallocs = 0
       /\ (pc = "returned" /\ Viable) => (ret # 0 \/ tbl.mallocs = 1)

\* four values with two wanted on either side of a cut, and the only place with two on
\* either side lies inside the run of 2s: the call returned without a table
C14_Witness ==
    /\ pc = "returned"
    /\ bufIn = <<2, 1, 2, 2>>
    /\ args.countMaximumBins = 2
    /\ args.countMinimumInstancesPerBin = 2
    /\ ~Viable
    /\ ret = 0
    /\ tbl.mallocs = 0

\* C15: the filling pass populates exactly the records the counting pass counted:
\* no record or pointer slot is written at an index >= cSplittingRanges, every
\* position assertion holds, and when the last-range flag has been set all
\* cSplittingRanges records and pointer slots are written, slot i pointing at record i,
\* and the flag is on record cSplittingRanges - 1.
C15_FillMatchesCount ==
    /\ ~tbl.badAccess
    /\ ~loc.assertFailed
    /\ tbl.state = "allocated"
       => /\ Len(tbl.aSplittingRange) = loc.cSplittingRanges
          /\ Len(tbl.apSplittingRange) = loc.cSplittingRanges
          /\ tbl.pSplittingRange <= loc.cSplittingRanges
          /\ tbl.ppSplittingRange = tbl.pSplittingRange
          /\ pc = "fill" => Emitted = 1..tbl.pSplittingRange
    /\ (tbl.mallocs = 1 /\ pc \in {"free", "returned"})
       => /\ Emitted = 1..loc.cSplittingRanges
          /\ \A i \in 1..loc.cSplittingRanges : tbl.apSplittingRange[i] = i - 1
          /\ \A i \in 1..loc.cSplittingRanges :
                (tbl.aSplittingRange[i].m_flags \div k_LastSplittingRange) % 2
                = IF i = loc.cSplittingRanges THEN 1 ELSE 0

\* a table of two records is full: the first was populated inside the loop and the
\* second, the flagged one, after it; the run of 1s that opens the data made no range
C15_Witness ==
    /\ pc = "free"
    /\ bufIn = <<1, 1, 2, 3>>
    /\ loc.avgLength = 1
    /\ loc.cSplittingRanges = 2
    /\ tbl.pSplittingRange = 1
    /\ Emitted = {1, 2}
    /\ tbl.aSplittingRange[2].m_flags = k_LastSplittingRange

\* C18: for maxBins >= 2 the table never holds more ranges than effectiveMaxBins:
\* neither the count of the first pass nor the records the second pass populates.
C18_RangesAtMostMaxBins ==
    (Precondition /\ args.countMaximumBins >= 2)
    => /\ pc \in {"random", "alloc", "fill", "free"}
          => loc.cSplittingRanges <= loc.cMaximumBins
       /\ tbl.mallocs = 1
          => /\ loc.cSplittingRanges <= loc.cMaximumBins
             /\ Cardinality(Emitted) <= loc.cMaximumBins

\* with two bins wanted, the run 2, 2 of length avgLength left a range on either side:
\* as many ranges as bins
C18_Witness ==
    /\ pc = "free"
    /\ SegmenterCall
    /\ bufIn = <<1, 2, 2, 3>>
    /\ loc.cMaximumBins = 2
    /\ Cardinality(Emitted) = 2

\* avgLength as the claims state it, for values without NaN
StatedAvgLength ==
    Max(args.countMinimumInstancesPerBin,
        CeilDiv(args.countInstances, args.countMaximumBins))

\* entries i..j of the sorted input hold no run of avgLength or more equal values
NoLongRun(i, j) ==
    \A k \in i..(j - StatedAvgLength + 1) : bufIn[k] # bufIn[k + StatedAvgLength - 1]

\* the sorted input is a prefix of a values, one maximal run of equal values up to
\* entry b, and a suffix
PrefixRunSuffix(a, b) ==
    /\ a >= args.countMinimumInstancesPerBin
    /\ Len(bufIn) - b >= args.countMinimumInstancesPerBin
    /\ b - a >= StatedAvgLength
    /\ bufIn[a + 1] = bufIn[b]
    /\ bufIn[a] # bufIn[a + 1]
    /\ bufIn[b] # bufIn[b + 1]
    /\ NoLongRun(1, a)
    /\ NoLongRun(b + 1, Len(bufIn))

\* C19: for a sorted sequence made of a prefix, one maximal run of equal values of
\* length >= avgLength, and a suffix, where prefix and suffix hold at least
\* minInstancesPerBin values each and no run of length >= avgLength, a successful call
\* builds exactly two ranges: the prefix, flagged first, and the suffix, flagged last,
\* each with one cut assigned.
C19_TwoRangesAroundRun ==
    SegmenterCall
    => \A a \in 1..Len(bufIn), b \in 1..(Len(bufIn) - 1) :
          (a < b /\ PrefixRunSuffix(a, b))
          => /\ (pc = "returned" /\ ret = 0) => tbl.mallocs = 1
             /\ pc \in {"random", "alloc", "fill", "free"} => loc.cSplittingRanges = 2
             /\ TableBuilt
                => /\ Len(tbl.aSplittingRange) = 2
                   /\ Emitted = {1, 2}
                   /\ LET first == tbl.aSplittingRange[1]
                          last == tbl.aSplittingRange[2]
                      IN /\ first.m_pSplittableValuesStart = 0
                         /\ first.m_cSplittableItems = a
                         /\ first.m_flags = k_FirstSplittingRange
                         /\ first.m_cSplitsAssigned = 1
                         /\ last.m_pSplittableValuesStart = b
                         /\ last.m_cSplittableItems = Len(bufIn) - b
                         /\ last.m_flags = k_LastSplittingRange
                         /\ last.m_cSplitsAssigned = 1

\* the values 1, 3, 3, 4 with three bins wanted (avgLength 2): the table is built
C19_Witness ==
    /\ pc = "free"
    /\ SegmenterCall
    /\ bufIn = <<1, 3, 3, 4>>
    /\ args.countMaximumBins = 3
    /\ PrefixRunSuffix(1, 3)
    /\ Emitted = {1, 2}

(***************************************************************************)
(* Discretize, lines 636-726.  disc holds the parameters, the caller's     *)
(* result array singleFeatureDiscretized and the locals of the call.       *)
(***************************************************************************)
StrictlyAscendingSeqs(S, maxLen) ==
    {c \in UNION {[1..n -> S] : n \in 0..maxLen} : StrictlyAscending(c)}

DiscCalls ==
    [pc : {"entry"},
     isMissing : {EBM_FALSE, EBM_TRUE},
     cutPointsLowerBoundInclusive : StrictlyAscendingSeqs(1..MaxVal, MaxCutLen),
     singleFeatureValues : UNION {[1..n -> {NaN} \cup (0..(MaxVal + 1))] : n \in 0..MaxDiscLen},
     singleFeatureDiscretized : {<<>>},
     pValue : {0}, middle : {0}, low : {0}, high : {0}, midVal : {0},
     badRead : {FALSE}]   \* cutPointsLowerBoundInclusive was read outside its elements

DiscUnchanged == UNCHANGED <<pc, args, buf, bufIn, cuts, out, assigned, ret, loc, tbl, bins, ord>>

DiscCutPoints == Len(disc.cutPointsLowerBoundInclusive)      \* cCutPoints
DiscInstances == Len(disc.singleFeatureValues)               \* cInstances
DiscHighStart == DiscCutPoints - 1                           \* highStart

\* lines 653-664 and 676-677
DiscEnter ==
    /\ disc.pc = "entry"
    /\ disc' = [disc EXCEPT
          !.singleFeatureDiscretized = [i \in 1..DiscInstances |-> PreCall],
          !.pc = IF DiscInstances = 0 THEN "done"
                 ELSE IF DiscCutPoints = 0 THEN "nocuts" ELSE "value"]
    /\ DiscUnchanged

\* pDiscretized and pValue advance together; the loop ends at pValueEnd
DiscStore(d, result, again) ==
    [d EXCEPT !.singleFeatureDiscretized[d.pValue + 1] = result,
              !.pValue = @ + 1,
              !.pc = IF d.pValue + 1 # DiscInstances THEN again ELSE "done"]

\* one iteration of the loop of lines 668-674
DiscNoCuts ==
    /\ disc.pc = "nocuts"
    /\ LET missingVal == IF EBM_FALSE # disc.isMissing THEN 0 ELSE -1
           nonMissingVal == IF EBM_FALSE # disc.isMissing THEN 1 ELSE 0
           val == At(disc.singleFeatureValues, disc.pValue)
           result == IF IsNaN(val) THEN missingVal ELSE nonMissingVal
       IN disc' = DiscStore(disc, result, "nocuts")
    /\ DiscUnchanged

\* lines 680-685 and 704-709: the start of one iteration of the outer loop
DiscBeginValue ==
    /\ disc.pc = "value"
    /\ LET val == At(disc.singleFeatureValues, disc.pValue)
           middle == IF EBM_FALSE # disc.isMissing THEN 0 ELSE -1
       IN disc' = IF ~IsNaN(val)
                  THEN [disc EXCEPT !.middle = middle, !.high = DiscHighStart, !.low = 0,
                                    !.pc = "probe"]
                  ELSE [disc EXCEPT !.middle = middle, !.pc = "store"]
    /\ DiscUnchanged

\* midVal < val in place of midVal <= val
ProbeGoesUpStrict(midVal, val) == FLt(midVal, val)

\* the test of lines 690-691, 694 and 714-715, 717
ProbeGoesUp(midVal, val) == FLe(midVal, val)

\* the binary search with low = middle in place of low = middle + 1
DiscProbeLowStays ==
    /\ disc.pc = "probe"
    /\ LET val == At(disc.singleFeatureValues, disc.pValue)
           middle == (disc.low + disc.high) \div 2
           inside == 0 <= middle /\ middle <= DiscHighStart
       IN \E midVal \in IF inside THEN {At(disc.cutPointsLowerBoundInclusive, middle)}
                        ELSE {NaN} \cup (0..(MaxVal + 1)) :
             LET high == IF ProbeGoesUp(midVal, val) THEN disc.high ELSE middle - 1
                 low == IF ProbeGoesUp(midVal, val) THEN middle ELSE disc.low
             IN disc' = [disc EXCEPT !.middle = middle, !.midVal = midVal,
                                     !.high = high, !.low = low,
                                     !.badRead = @ \/ ~inside,
                                     !.pc = IF low <= high THEN "probe" ELSE "found"]
    /\ DiscUnchanged

\* one iteration of the binary search, lines 686-692 and 710-716
DiscProbe ==
    /\ disc.pc = "probe"
    /\ LET val == At(disc.singleFeatureValues, disc.pValue)
           middle == (disc.low + disc.high) \div 2
           inside == 0 <= middle /\ middle <= DiscHighStart
       IN \E midVal \in IF inside THEN {At(disc.cutPointsLowerBoundInclusive, middle)}
                        ELSE {NaN} \cup (0..(MaxVal + 1)) :
             LET high == IF ProbeGoesUp(midVal, val) THEN disc.high ELSE middle - 1
                 low == IF ProbeGoesUp(midVal, val) THEN middle + 1 ELSE disc.low
             IN disc' = [disc EXCEPT !.middle = middle, !.midVal = midVal,
                                     !.high = high, !.low = low,
                                     !.badRead = @ \/ ~inside,
                                     !.pc = IF low <= high THEN "probe" ELSE "found"]
    /\ DiscUnchanged

\* lines 694 and 717
DiscFound ==
    /\ disc.pc = "found"
    /\ LET val == At(disc.singleFeatureValues, disc.pValue)
           up == ProbeGoesUp(disc.midVal, val)
       IN disc' = [disc EXCEPT
             !.middle = IF EBM_FALSE # disc.isMissing
                        THEN (IF up THEN @ + 2 ELSE @ + 1)
                        ELSE (IF up THEN @ + 1 ELSE @),
             !.pc = "store"]
    /\ DiscUnchanged

\* lines 697-700 and 720-723
DiscEmit ==
    /\ disc.pc = "store"
    /\ disc' = DiscStore(disc, disc.middle, "value")
    /\ DiscUnchanged

InitDiscretize ==
    /\ pc = "idle"
    /\ args = [countInstances |-> 0, countMaximumBins |-> 0, countMinimumInstancesPerBin |-> 0]
    /\ buf = <<>>
    /\ bufIn = <<>>
    /\ cuts = <<>>
    /\ out = [n \in OutNames |-> PreCall]
    /\ assigned = {}
    /\ ret = 0
    /\ loc = LocInit
    /\ tbl = TblInit
    /\ bins = BinsIdle
    /\ ord = OrdIdle
    /\ disc \in DiscCalls

NextDiscretize ==
    \/ DiscEnter
    \/ DiscNoCuts
    \/ DiscBeginValue
    \/ DiscProbe
    \/ DiscFound
    \/ DiscEmit

SpecDiscretize == InitDiscretize /\ [][NextDiscretize]_vars

\* the mapping Discretize is specified to compute
ReferenceBin(hadMissing, cutPoints, v) ==
    IF IsNaN(v) THEN (IF hadMissing THEN 0 ELSE -1)
    ELSE Cardinality({j \in DOMAIN cutPoints : cutPoints[j] <= v})
         + (IF hadMissing THEN 1 ELSE 0)

\* C3: for every strictly increasing cut-point sequence (the empty one too) and every
\* value, Discretize stores the reference bin: 0 (hadMissing) or -1 (not) for NaN, else
\* the number of cut points <= v, plus 1 if hadMissing; so the cut below the chosen bin
\* is <= v, the cut above it is > v, and a value equal to a cut lands above that cut.
C3_DiscretizeIsReference ==
    LET hadMissing == disc.isMissing = EBM_TRUE
        c == disc.cutPointsLowerBoundInclusive
        shift == IF hadMissing THEN 1 ELSE 0
    IN disc.pc = "done"
       => /\ Len(disc.singleFeatureDiscretized) = DiscInstances
          /\ ~disc.badRead
          /\ \A i \in 1..DiscInstances :
                LET v == disc.singleFeatureValues[i]
                    r == disc.singleFeatureDiscretized[i]
                    k == r - shift      \* the number of cuts below the bin
                IN /\ r = ReferenceBin(hadMissing, c, v)
                   /\ ~IsNaN(v) => /\ k \in 0..Len(c)
                                   /\ k >= 1 => c[k] <= v
                                   /\ k < Len(c) => v < c[k + 1]

\* with cuts 1, 2, 3 and hadMissing, the value 2 (equal to the middle cut) was put in
\* bin 3 and a NaN in bin 0
C3_Witness ==
    /\ disc.pc = "done"
    /\ disc.isMissing = EBM_TRUE
    /\ disc.cutPointsLowerBoundInclusive = <<1, 2, 3>>
    /\ disc.singleFeatureValues = <<2, NaN>>
    /\ disc.singleFeatureDiscretized = <<3, 0>>

\* Discretize runs on until it returns
SpecDiscretizeRuns == SpecDiscretize /\ WF_vars(NextDiscretize)

\* C17: for cutCount >= 1 and every non-NaN value the binary search of Discretize ends:
\* high - low shrinks in every iteration, every probed index is in [0, cutCount - 1],
\* and the bin stored is in [0, cutCount] when hadMissing is false and in
\* [1, cutCount + 1] when it is true.
C17_SearchTerminatesInRange ==
    /\ [][disc.pc = "probe"
           => /\ disc'.high - disc'.low < disc.high - disc.low
              /\ disc'.middle \in 0..(DiscCutPoints - 1)]_vars
    /\ [](~disc.badRead)
    /\ []((disc.pc = "done" /\ DiscCutPoints >= 1)
           => \A i \in 1..DiscInstances :
                 ~IsNaN(disc.singleFeatureValues[i])
                 => LET shift == IF EBM_FALSE # disc.isMissing THEN 1 ELSE 0
                    IN disc.singleFeatureDiscretized[i] \in shift..(DiscCutPoints + shift))
    /\ <>(disc.pc = "done")

\* with cuts 1, 2, 3 and hadMissing, a value below every cut got bin 1 and a value
\* above every cut got bin 4 = cutCount + 1
C17_Witness ==
    /\ disc.pc = "done"
    /\ disc.isMissing = EBM_TRUE
    /\ disc.cutPointsLowerBoundInclusive = <<1, 2, 3>>
    /\ disc.singleFeatureValues = <<0, 4>>
    /\ disc.singleFeatureDiscretized = <<1, 4>>

(***************************************************************************)
(* GetCountBinsMax run one loop iteration at a time.                       *)
(***************************************************************************)
BinsUnchanged == UNCHANGED <<pc, args, buf, bufIn, cuts, out, assigned, ret, loc, tbl, disc, ord>>

\* lines 150-159
BinsEnter ==
    /\ bins.pc = "entry"
    /\ bins' = [bins EXCEPT !.cMaximumBins = bins.countMaximumBins,
                            !.cBits = IF bins.bMissing THEN TopBit ELSE @,
                            !.pc = IF bins.bMissing THEN "loop" ELSE "done"]
    /\ BinsUnchanged

\* one iteration of the do-while of lines 160-173; at "done" cMaximumBins is returned
BinsStep ==
    /\ bins.pc = "loop"
    /\ LET b == BinsLoopBody(bins.cBits, bins.cMaximumBins)
       IN bins' = [bins EXCEPT !.cBits = b.cBits, !.cMaximumBins = b.cMaximumBins,
                               !.iterations = @ + 1,
                               !.pc = IF BinsLoopAgain(b) THEN "loop" ELSE "done"]
    /\ BinsUnchanged

InitBins ==
    /\ pc = "idle"
    /\ args = [countInstances |-> 0, countMaximumBins |-> 0, countMinimumInstancesPerBin |-> 0]
    /\ buf = <<>>
    /\ bufIn = <<>>
    /\ cuts = <<>>
    /\ out = [n \in OutNames |-> PreCall]
    /\ assigned = {}
    /\ ret = 0
    /\ loc = LocInit
    /\ tbl = TblInit
    /\ disc = DiscIdle
    /\ ord = OrdIdle
    /\ bins \in [pc : {"entry"}, bMissing : BOOLEAN, countMaximumBins : 2..IntMax,
                 cMaximumBins : {0}, cBits : {0}, iterations : {0}]

NextBins ==
    \/ BinsEnter
    \/ BinsStep

\* the function runs on until it returns
SpecBins == InitBins /\ [][NextBins]_vars /\ WF_vars(NextBins)

IsPowerOfTwo(m) == \E k \in 0..SizeBits : Pow2(k) = m

\* C9: GetCountBinsMax returns maxBins - 1 exactly when missing values are present and
\* maxBins is a power of two >= 16, and maxBins in every other case; its loop ends for
\* every maxBins >= 2, after at most one iteration per bit of size_t.
C9_GetCountBinsMax ==
    /\ [](bins.pc = "done"
          => /\ bins.cMaximumBins =
                   IF bins.bMissing /\ IsPowerOfTwo(bins.countMaximumBins)
                      /\ bins.countMaximumBins >= 16
                   THEN bins.countMaximumBins - 1
                   ELSE bins.countMaximumBins
             /\ bins.cMaximumBins = GetCountBinsMax(bins.bMissing, bins.countMaximumBins))
    /\ [](bins.iterations <= SizeBits)
    /\ <>(bins.pc = "done")

\* with missing values, 16 bins were reduced to 15
C9_Witness ==
    /\ bins.pc = "done"
    /\ bins.bMissing
    /\ bins.countMaximumBins = 16
    /\ bins.cMaximumBins = 15
    /\ bins.iterations >= 1

(***************************************************************************)
(* SortSplittingRangesByCountItemsAscending, lines 43-90, and              *)
(* SortSplittingRangesByUnsplittableDescending, lines 93-147.              *)
(*                                                                         *)
(* ord.aSplittingRange are the records, ord.apSplittingRange the pointers  *)
(* being ordered (0-based record indices).  A function is run twice on the *)
(* same records: the first run draws its random numbers freely and logs    *)
(* them; the other run either starts from another arrangement of the       *)
(* pointers and is fed the logged numbers again (run 2), or starts from    *)
(* the same arrangement and draws numbers of its own (run 3).              *)
(***************************************************************************)
ByCountItemsAscending == "SortSplittingRangesByCountItemsAscending"
ByUnsplittableDescending == "SortSplittingRangesByUnsplittableDescending"

\* the comparison without the tie-break on m_pSplittableValuesStart
RangeLessKeyOnly(which, r1, r2) ==
    IF which = ByCountItemsAscending
    THEN r1.m_cSplittableItems < r2.m_cSplittableItems
    ELSE IF r1.m_cUnsplittableEitherSideMax = r2.m_cUnsplittableEitherSideMax
         THEN r1.m_cUnsplittableEitherSideMin > r2.m_cUnsplittableEitherSideMin
         ELSE r1.m_cUnsplittableEitherSideMax > r2.m_cUnsplittableEitherSideMax

\* the lambdas of lines 51-57 and 101-111
RangeLess(which, r1, r2) ==
    IF which = ByCountItemsAscending
    THEN IF r1.m_cSplittableItems = r2.m_cSplittableItems
         THEN r1.m_pSplittableValuesStart < r2.m_pSplittableValuesStart
         ELSE r1.m_cSplittableItems < r2.m_cSplittableItems
    ELSE IF r1.m_cUnsplittableEitherSideMax = r2.m_cUnsplittableEitherSideMax
         THEN IF r1.m_cUnsplittableEitherSideMin = r2.m_cUnsplittableEitherSideMin
              THEN r1.m_pSplittableValuesStart > r2.m_pSplittableValuesStart
              ELSE r1.m_cUnsplittableEitherSideMin > r2.m_cUnsplittableEitherSideMin
         ELSE r1.m_cUnsplittableEitherSideMax > r2.m_cUnsplittableEitherSideMax

\* what the shuffle compares: lines 61-64, and 115-120
RangeKey(which, r) ==
    IF which = ByCountItemsAscending THEN <<r.m_cSplittableItems>>
    ELSE <<r.m_cUnsplittableEitherSideMax, r.m_cUnsplittableEitherSideMin>>

\* std::sort of the pointers, lines 51 and 101: pointer j goes after the pointers
\* that compare less and after the equivalent ones that stood before it
PtrPlace(which, a, ap, j) ==
    Cardinality({k \in DOMAIN ap : RangeLess(which, a[ap[k] + 1], a[ap[j] + 1])})
    + Cardinality({k \in 1..j : /\ ~RangeLess(which, a[ap[k] + 1], a[ap[j] + 1])
                                /\ ~RangeLess(which, a[ap[j] + 1], a[ap[k] + 1])})

StdSortPtrs(which, a, ap) ==
    [i \in DOMAIN ap |-> ap[CHOOSE j \in DOMAIN ap : PtrPlace(which, a, ap, j) = i]]

\* pRandomStream->Next(bound): some index in [0, bound)
RandomStreamNext(bound) == 0..(bound - 1)

OrdRanges == ord.aSplittingRange
OrdCount == Len(ord.apSplittingRange)     \* cSplittingRanges
OrdKeyAt(i) == RangeKey(ord.which, OrdRanges[At(ord.apSplittingRange, i) + 1])

OrdUnchanged == UNCHANGED <<pc, args, buf, bufIn, cuts, out, assigned, ret, loc, tbl, bins, disc>>

\* the draws an iteration may get: any, in the first run and in a run with a stream
\* of its own; the logged one, in the run that repeats the first
OrdDraws(bound) ==
    IF ord.run # 2 THEN RandomStreamNext(bound)
    ELSE IF Len(ord.draws) > ord.drawn /\ ord.draws[ord.drawn + 1][1] = bound
         THEN {ord.draws[ord.drawn + 1][2]}
         ELSE {}

\* one iteration of a shuffle loop without ++iStartEqualLengthRange
OrdSwapNoAdvance(o, bound, iSwap) ==
    LET iA == o.iStartEqualLengthRange
        iB == o.iStartEqualLengthRange + iSwap
        inside == iA < Len(o.apSplittingRange) /\ iB < Len(o.apSplittingRange)
    IN [o EXCEPT
          !.apSplittingRange =
              IF inside THEN [@ EXCEPT ![iA + 1] = o.apSplittingRange[iB + 1],
                                       ![iB + 1] = o.apSplittingRange[iA + 1]]
              ELSE @,
          !.badIndex = @ \/ ~inside,
          !.cRemainingItems = @ - 1,
          !.draws = IF o.run = 1 THEN Append(@, <<bound, iSwap>>) ELSE @,
          !.draws2 = IF o.run = 3 THEN Append(@, <<bound, iSwap>>) ELSE @,
          !.drawn = @ + 1]

\* lines 69-74, 83-88, 125-130, 140-145: one iteration of a shuffle loop
OrdSwap(o, bound, iSwap) ==
    LET iA == o.iStartEqualLengthRange
        iB == o.iStartEqualLengthRange + iSwap
        inside == iA < Len(o.apSplittingRange) /\ iB < Len(o.apSplittingRange)
    IN [o EXCEPT
          !.apSplittingRange =
              IF inside THEN [@ EXCEPT ![iA + 1] = o.apSplittingRange[iB + 1],
                                       ![iB + 1] = o.apSplittingRange[iA + 1]]
              ELSE @,
          !.badIndex = @ \/ ~inside,
          !.iStartEqualLengthRange = @ + 1,
          !.cRemainingItems = @ - 1,
          !.draws = IF o.run = 1 THEN Append(@, <<bound, iSwap>>) ELSE @,
          !.draws2 = IF o.run = 3 THEN Append(@, <<bound, iSwap>>) ELSE @,
          !.drawn = @ + 1]

\* lines 51-61 and 101-116
OrdSort ==
    /\ ord.pc = "sort"
    /\ LET sorted == StdSortPtrs(ord.which, OrdRanges, ord.apSplittingRange)
       IN ord' = [ord EXCEPT !.apSplittingRange = sorted,
                             !.iStartEqualLengthRange = 0,
                             !.cItems = RangeKey(ord.which, OrdRanges[sorted[1] + 1]),
                             !.i = 1,
                             !.pc = "scan"]
    /\ OrdUnchanged

\* the for loop handing the inner shuffle one entry more than the block holds
OrdScanOneMore ==
    /\ ord.pc = "scan"
    /\ ord' = IF ord.i < OrdCount
              THEN IF ord.cItems # OrdKeyAt(ord.i)
                   THEN [ord EXCEPT !.cRemainingItems = ord.i - ord.iStartEqualLengthRange + 1,
                                    !.pc = "inner"]
                   ELSE [ord EXCEPT !.i = @ + 1]
              ELSE [ord EXCEPT !.cRemainingItems = OrdCount - ord.iStartEqualLengthRange,
                               !.pc = "outer"]
    /\ OrdUnchanged

\* the for loop of lines 62-66, 79-81 and 117-123, 136-138, up to a shuffle loop
OrdScan ==
    /\ ord.pc = "scan"
    /\ ord' = IF ord.i < OrdCount
              THEN IF ord.cItems # OrdKeyAt(ord.i)
                   THEN [ord EXCEPT !.cRemainingItems = ord.i - ord.iStartEqualLengthRange,
                                    !.pc = "inner"]
                   ELSE [ord EXCEPT !.i = @ + 1]
              ELSE [ord EXCEPT !.cRemainingItems = OrdCount - ord.iStartEqualLengthRange,
                               !.pc = "outer"]
    /\ OrdUnchanged

\* the while loop of lines 68-78 and 124-135
OrdInner ==
    /\ ord.pc = "inner"
    /\ IF 1 # ord.cRemainingItems
       THEN \E iSwap \in OrdDraws(ord.cRemainingItems) :
               ord' = OrdSwap(ord, ord.cRemainingItems, iSwap)
       ELSE ord' = [ord EXCEPT !.iStartEqualLengthRange = ord.i,
                               !.cItems = OrdKeyAt(ord.i),
                               !.i = @ + 1,
                               !.pc = "scan"]
    /\ OrdUnchanged

\* the while loop of lines 82-89 and 139-146, and the return
OrdOuter ==
    /\ ord.pc = "outer"
    /\ IF 1 # ord.cRemainingItems
       THEN \E iSwap \in OrdDraws(ord.cRemainingItems) :
               ord' = OrdSwap(ord, ord.cRemainingItems, iSwap)
       ELSE ord' = [ord EXCEPT !.pc = "done"]
    /\ OrdUnchanged

\* the same function is called again on the same records, the pointers arranged as
\* ord.second, with a random stream that repeats the numbers of the first call
OrdCallAgain ==
    /\ ord.pc = "done"
    /\ ord.run = 1
    /\ ord' = [ord EXCEPT !.run = 2,
                          !.first = ord.apSplittingRange,
                          !.apSplittingRange = ord.second,
                          !.drawn = 0,
                          !.pc = "sort"]
    /\ OrdUnchanged

\* the same function is called again on the same records and the same arrangement of
\* the pointers, with a random stream of its own (run 3); its numbers are logged too
OrdCallAfresh ==
    /\ ord.pc = "done"
    /\ ord.run = 1
    /\ ord' = [ord EXCEPT !.run = 3,
                          !.first = ord.apSplittingRange,
                          !.apSplittingRange = ord.entry,
                          !.drawn = 0,
                          !.pc = "sort"]
    /\ OrdUnchanged

PointerOrders(n) == {p \in [1..n -> 0..(n - 1)] : \A i, j \in 1..n : p[i] = p[j] => i = j}

\* the keys a record may hold: <<m_cSplittableItems, m_cUnsplittableEitherSideMax,
\* m_cUnsplittableEitherSideMin>>, min <= max (lines 410-411); the key the called
\* function does not read is left 0
OrdKeys(which) ==
    IF which = ByCountItemsAscending
    THEN {<<c, 0, 0>> : c \in 0..MaxKey}
    ELSE {<<0, k[1], k[2]>> : k \in {k \in (0..MaxKey) \X (0..MaxKey) : k[2] <= k[1]}}

\* the records of a table: starts increase with the index (lines 405, 426)
OrdRecords(which, n) ==
    {[i \in 1..n |-> [m_pSplittableValuesStart |-> i - 1,
                      m_cSplittableItems |-> k[i][1],
                      m_cUnsplittableEitherSideMax |-> k[i][2],
                      m_cUnsplittableEitherSideMin |-> k[i][3]]] :
        k \in [1..n -> OrdKeys(which)]}

InitSort ==
    /\ pc = "idle"
    /\ args = [countInstances |-> 0, countMaximumBins |-> 0, countMinimumInstancesPerBin |-> 0]
    /\ buf = <<>>
    /\ bufIn = <<>>
    /\ cuts = <<>>
    /\ out = [n \in OutNames |-> PreCall]
    /\ assigned = {}
    /\ ret = 0
    /\ loc = LocInit
    /\ tbl = TblInit
    /\ bins = BinsIdle
    /\ disc = DiscIdle
    /\ \E which \in {ByCountItemsAscending, ByUnsplittableDescending}, n \in 1..MaxRanges :
         \E a \in OrdRecords(which, n), p1 \in PointerOrders(n) :
            ord = [pc |-> "sort", which |-> which, run |-> 1,
                   aSplittingRange |-> a,
                   apSplittingRange |-> p1,
                   entry |-> p1,                          \* the arrangement of the first call
                   second |-> [i \in 1..n |-> i - 1],     \* the arrangement line 419 builds
                   first |-> <<>>,                        \* the result of the first call
                   draws |-> <<>>, drawn |-> 0,
                   draws2 |-> <<>>,                       \* the draws of a run 3
                   i |-> 0, iStartEqualLengthRange |-> 0, cItems |-> <<>>,
                   cRemainingItems |-> 0, badIndex |-> FALSE]

NextSort ==
    \/ OrdSort
    \/ OrdScan
    \/ OrdInner
    \/ OrdOuter
    \/ OrdCallAgain
    \/ OrdCallAfresh

SpecSort == InitSort /\ [][NextSort]_vars

\* C10: for each ordering function, two calls on the same records that are given the
\* same random numbers end with the same order of the pointers, whatever the
\* arrangement of the pointers on entry; the second call asks for as many numbers, with
\* the same bounds, as the first.
C10_OrderIsDeterministic ==
    /\ (ord.run = 2 /\ ord.pc = "done")
       => /\ ord.apSplittingRange = ord.first
          /\ ord.drawn = Len(ord.draws)
    /\ (ord.run = 2 /\ ord.pc \in {"inner", "outer"} /\ 1 # ord.cRemainingItems)
       => OrdDraws(ord.cRemainingItems) # {}

\* both calls are done: the first started from a pointer array in another order than the
\* second, and random numbers were drawn to shuffle a block of three equal keys
C10_Witness ==
    /\ ord.run = 2
    /\ ord.pc = "done"
    /\ ord.entry # ord.second
    /\ Len(ord.draws) = 2
    /\ ord.draws[1][1] = 3
    /\ ord.first # ord.second

\* the order each function is to leave between the keys of neighbours
KeyInOrder(which, k1, k2) ==
    IF which = ByCountItemsAscending THEN k1[1] <= k2[1]
    ELSE k1[1] > k2[1] \/ (k1[1] = k2[1] /\ k1[2] >= k2[2])

\* C16: for every array of one or more range pointers and all draws in [0, bound), each
\* ordering function leaves a permutation of the pointers it was given, non-decreasing
\* in splittableCount (ascending function) or non-increasing in (unsplittableEitherSideMax,
\* unsplittableEitherSideMin) (descending function), and every swap the shuffle can
\* make is inside the array and between two entries of equal key.
C16_SortedPermutation ==
    /\ ~ord.badIndex
    /\ ord.pc \in {"scan", "inner", "outer", "done"}
       => /\ Len(ord.apSplittingRange) = Len(ord.entry)
          /\ \A p \in 0..(OrdCount - 1) :
                Cardinality({i \in 0..(OrdCount - 1) : At(ord.apSplittingRange, i) = p}) = 1
          /\ \A i \in 0..(OrdCount - 2) : KeyInOrder(ord.which, OrdKeyAt(i), OrdKeyAt(i + 1))
    /\ (ord.pc \in {"inner", "outer"} /\ 1 # ord.cRemainingItems)
       => /\ 1 <= ord.cRemainingItems
          /\ \A iSwap \in RandomStreamNext(ord.cRemainingItems) :
                /\ ord.iStartEqualLengthRange + iSwap < OrdCount
                /\ OrdKeyAt(ord.iStartEqualLengthRange + iSwap)
                   = OrdKeyAt(ord.iStartEqualLengthRange)

\* the descending function is done with three pointers given in another order than it
\* leaves them: a block of two equal keys was shuffled with the draw 1, and the third
\* record has a different key
C16_Witness ==
    /\ ord.pc = "done"
    /\ ord.run = 1
    /\ ord.which = ByUnsplittableDescending
    /\ OrdCount = 3
    /\ ord.draws = <<<<2, 1>>>>
    /\ ord.apSplittingRange # ord.entry
    /\ OrdKeyAt(0) # OrdKeyAt(2)

\* the pointers being ordered form one block: all records have the same key
OneBlock == \A i \in 0..(OrdCount - 1) : OrdKeyAt(i) = OrdKeyAt(0)

\* C20: the shuffle of either function is a bijection between draw sequences and
\* orderings: two calls on the same pointers end in the same order exactly when they
\* drew the same numbers, and a block of k entries asks for k - 1 numbers with the
\* bounds k, k - 1, ..., 2, so that the k! draw sequences give the k! orderings.
C20_ShuffleIsBijection ==
    (ord.run = 3 /\ ord.pc = "done")
    => /\ (ord.apSplittingRange = ord.first) <=> (ord.draws2 = ord.draws)
       /\ OneBlock
          => /\ Len(ord.draws2) = OrdCount - 1
             /\ \A j \in 1..(OrdCount - 1) : ord.draws2[j][1] = OrdCount - j + 1

\* two calls shuffled one block of three entries with different numbers and left the
\* pointers in different orders
C20_Witness ==
    /\ ord.run = 3
    /\ ord.pc = "done"
    /\ OrdCount = 3
    /\ OneBlock
    /\ ord.draws = <<<<3, 1>>, <<2, 1>>>>
    /\ ord.draws2 = <<<<3, 2>>, <<2, 0>>>>
    /\ ord.apSplittingRange # ord.first

====
